---- MODULE Spec2Model ----
(***************************************************************************)
(* News retrieval and relevance filtering of backend/IntelligenceHub.py:   *)
(* get_crypto_news(symbol, num_stories) and its nested classifier          *)
(* is_crypto_relevant(text, symbol).                                       *)
(*                                                                         *)
(* Text is a sequence of one-character strings, so that lower-casing, the  *)
(* word-boundary patterns, the keyword substring tests, tag stripping and  *)
(* truncation are computed on characters as the Python code computes them. *)
(***************************************************************************)
EXTENDS Integers, Sequences, FiniteSets, TLC

(* ------------------------------ bounds -------------------------------- *)

\* Largest number of words in a text handed to the classifier on its own.
MaxWords == 3

(* ------------------------- character primitives ----------------------- *)

UpperLetters ==
  <<"A","B","C","D","E","F","G","H","I","J","K","L","M",
    "N","O","P","Q","R","S","T","U","V","W","X","Y","Z">>

LowerLetters ==
  <<"a","b","c","d","e","f","g","h","i","j","k","l","m",
    "n","o","p","q","r","s","t","u","v","w","x","y","z">>

Digits == {"0","1","2","3","4","5","6","7","8","9"}

\* str.lower() on one character.
lower_char(c) ==
  IF \E i \in 1..26 : UpperLetters[i] = c
    THEN LowerLetters[CHOOSE i \in 1..26 : UpperLetters[i] = c]
    ELSE c

\* str.lower(): text.lower(), symbol.lower(), clean_symbol.lower().
lower(s) == [i \in 1..Len(s) |-> lower_char(s[i])]

\* symbol.replace('-', ' ')
clean_symbol_of(symbol) ==
  [i \in 1..Len(symbol) |-> IF symbol[i] = "-" THEN " " ELSE symbol[i]]

\* The regular expression class \w on the characters used here.
IsWordChar(c) ==
  \/ \E i \in 1..26 : UpperLetters[i] = c \/ LowerLetters[i] = c
  \/ c \in Digits
  \/ c = "_"

\* t[k] exists and is a word character (outside the text counts as non-word).
WordAt(t, k) == k >= 1 /\ k <= Len(t) /\ IsWordChar(t[k])

\* The mutant of WordBoundary: the pattern built without its \b anchors.
NoBoundary(t, pos) == TRUE

\* \b between t[pos-1] and t[pos].
WordBoundary(t, pos) == WordAt(t, pos - 1) # WordAt(t, pos)

\* p occurs in t starting at position i (re.escape makes p literal).
LiteralAt(t, p, i) ==
  /\ i >= 1
  /\ i + Len(p) - 1 <= Len(t)
  /\ \A j \in 1..Len(p) : t[i + j - 1] = p[j]

\* r"\b" + re.escape(p) + r"\b" matches t at position i.
PatternAt(t, p, i) ==
  /\ LiteralAt(t, p, i)
  /\ WordBoundary(t, i)
  /\ WordBoundary(t, i + Len(p))

\* re.search(pattern, t) is not None
re_search(p, t) == \E i \in 1..Len(t) : PatternAt(t, p, i)

RECURSIVE FindAllFrom(_, _, _)
\* Matches found scanning from position i: the leftmost match at or after
\* i counts, and the scan resumes after it (re.findall returns
\* non-overlapping matches).
FindAllFrom(p, t, i) ==
  LET at == {j \in i..Len(t) : PatternAt(t, p, j)}
      first == CHOOSE j \in at : \A j2 \in at : j <= j2
  IN  IF at = {} THEN 0
      ELSE 1 + FindAllFrom(p, t, first + (IF Len(p) = 0 THEN 1 ELSE Len(p)))

\* len(re.findall(pattern, t))
re_findall_len(p, t) == FindAllFrom(p, t, 1)

\* keyword in text_lower
Contains(t, k) == \E i \in 1..Len(t) : LiteralAt(t, k, i)

(* ------------------------------ keyword lists ------------------------- *)

crypto_keywords ==
  << <<"c","r","y","p","t","o","c","u","r","r","e","n","c","y">>,
     <<"c","r","y","p","t","o">>,
     <<"b","l","o","c","k","c","h","a","i","n">>,
     <<"t","o","k","e","n">>,
     <<"c","o","i","n">>,
     <<"b","i","t","c","o","i","n">>,
     <<"e","t","h","e","r","e","u","m">>,
     <<"t","r","a","d","i","n","g">>,
     <<"e","x","c","h","a","n","g","e">>,
     <<"w","a","l","l","e","t">>,
     <<"p","r","i","c","e">>,
     <<"m","a","r","k","e","t">>,
     <<"d","e","f","i">>,
     <<"n","f","t">>,
     <<"m","i","n","i","n","g">>,
     <<"s","t","a","k","i","n","g">>,
     <<"b","u","l","l">>,
     <<"b","e","a","r">>,
     <<"r","a","l","l","y">>,
     <<"d","u","m","p">>,
     <<"p","u","m","p">>,
     <<"h","o","d","l">>,
     <<"b","i","n","a","n","c","e">>,
     <<"c","o","i","n","b","a","s","e">>,
     <<"k","r","a","k","e","n">>,
     <<"u","n","i","s","w","a","p">>,
     <<"d","e","x">>,
     <<"a","l","t","c","o","i","n">>,
     <<"m","e","m","e","c","o","i","n">>,
     <<"w","e","b","3">>,
     <<"s","a","t","o","s","h","i">>,
     <<"l","e","d","g","e","r">>,
     <<"b","u","y">>,
     <<"s","e","l","l">>,
     <<"t","r","a","d","e">>,
     <<"i","n","v","e","s","t">>,
     <<"c","a","p","i","t","a","l","i","z","a","t","i","o","n">> >>

false_positive_indicators ==
  << <<"c","o","u","n","t","r","y">>,
     <<"n","a","t","i","o","n">>,
     <<"g","o","v","e","r","n","m","e","n","t">>,
     <<"p","o","l","i","t","i","c","s">>,
     <<"e","l","e","c","t","i","o","n">>,
     <<"t","o","u","r","i","s","m">>,
     <<"g","e","o","g","r","a","p","h","y">>,
     <<"c","i","t","y">>,
     <<"c","a","p","i","t","a","l">>,
     <<"p","r","e","s","i","d","e","n","t">>,
     <<"f","l","o","w","e","r">>,
     <<"p","l","a","n","t">>,
     <<"g","a","r","d","e","n">>,
     <<"n","a","t","u","r","e">>,
     <<"s","p","e","c","i","e","s">>,
     <<"m","o","v","i","e">>,
     <<"f","i","l","m">>,
     <<"a","c","t","o","r">>,
     <<"a","c","t","r","e","s","s">>,
     <<"d","i","r","e","c","t","o","r">>,
     <<"r","e","s","t","a","u","r","a","n","t">>,
     <<"f","o","o","d">>,
     <<"r","e","c","i","p","e">>,
     <<"c","o","o","k","i","n","g">>,
     <<"c","h","e","f">> >>


(* ------------------------------ classifier ---------------------------- *)

\* any(keyword in text_lower for keyword in crypto_keywords)
has_crypto_context(text_lower) ==
  \E k \in 1..Len(crypto_keywords) : Contains(text_lower, crypto_keywords[k])

\* any(indicator in text_lower for indicator in false_positive_indicators)
has_false_positive(text_lower) ==
  \E k \in 1..Len(false_positive_indicators) :
      Contains(text_lower, false_positive_indicators[k])

\* sum(1 for kw in crypto_keywords if kw in text_lower)
crypto_count(text_lower) ==
  Cardinality({k \in 1..Len(crypto_keywords) :
                  Contains(text_lower, crypto_keywords[k])})

\* len(re.findall(symbol_pattern, ..)) + len(re.findall(clean_symbol_pattern, ..))
symbol_count(text_lower, symbol) ==
  re_findall_len(lower(symbol), text_lower)
    + re_findall_len(lower(clean_symbol_of(symbol)), text_lower)

is_crypto_relevant(text, symbol) ==
  LET text_lower == lower(text)
      symbol_lower == lower(symbol)
      clean_symbol_lower == lower(clean_symbol_of(symbol))
  IN  IF ~(re_search(symbol_lower, text_lower)
            \/ re_search(clean_symbol_lower, text_lower))
        THEN FALSE
      ELSE IF symbol_count(text_lower, symbol) >= 2
        THEN TRUE
      ELSE IF symbol_count(text_lower, symbol) = 1
        THEN IF has_crypto_context(text_lower) /\ ~has_false_positive(text_lower)
               THEN TRUE
             ELSE IF has_crypto_context(text_lower) /\ has_false_positive(text_lower)
               THEN crypto_count(text_lower) >= 2
             ELSE FALSE
      ELSE FALSE

(* ------------------------- entries and stories ------------------------ *)

\* Largest number of stories a caller asks for.
MaxStories == 2

\* Largest number of raw entries one response carries.
MaxEntries == 6

\* desc[:200] / len(desc) > 200
DescLimit == 200

\* pageSize=30 in the NewsAPI request.
pageSize == 30

\* A key the entry does not have (dict.get falls back to its default).
Missing == <<"#missing">>

\* A key present with the value None (JSON null).
Null == <<"#null">>

Rep(c, n) == [i \in 1..n |-> c]

Ellipsis == <<".",".",".">>

TitleSep == <<" ","-"," ">>

NoTitle == <<"N","o"," ","t","i","t","l","e">>

\* The raw entries a source may return.  link "" stands for an absent or
\* empty link; bad marks an entry that is no mapping, so that reading it
\* raises; summary doubles as the NewsAPI description, srcname as its
\* source.name.
EntryPool ==
  << [link |-> "u1", bad |-> FALSE, published |-> "Mon, 02 Nov",
     title |-> <<"P","i"," ","N","e","t","w","o","r","k"," ","c","o","i","n",
                 " ","-"," ","C","o","i","n","D","e","s","k">>,
     summary |-> <<"<","b",">","t","o","k","e","n","<","/","b",">"," ",
                   "<",">","n","e","w","s">>,
     srcname |-> <<"C","o","i","n","D","e","s","k">>],
    [link |-> "u1", bad |-> FALSE, published |-> "",
     title |-> <<"p","i","-","n","e","t","w","o","r","k"," ","c","o","i","n">>,
     summary |-> Missing, srcname |-> Missing],
    [link |-> "u2", bad |-> FALSE, published |-> "",
     title |-> <<"p","i","-","n","e","t","w","o","r","k">>,
     summary |-> <<"<","p",">","c","o","i","n"," ">> \o Rep("x", DescLimit - 4)
                   \o <<"<","/","p",">">>,
     srcname |-> Missing],
    [link |-> "u3", bad |-> FALSE, published |-> "",
     title |-> <<"p","i","-","n","e","t","w","o","r","k"," ","c","o","i","n">>,
     summary |-> <<"<","i",">">> \o Rep("y", DescLimit) \o <<"<","/","i",">">>,
     srcname |-> Missing],
    [link |-> "u2", bad |-> FALSE, published |-> "",
     title |-> <<"O","a","s","i","s"," ","p","i","-","n","e","t","w","o","r","k",
                 " ","c","o","i","n"," ","c","i","t","y">>,
     summary |-> <<>>, srcname |-> Missing],
    [link |-> "", bad |-> FALSE, published |-> "",
     title |-> <<"p","i","-","n","e","t","w","o","r","k"," ","c","o","i","n">>,
     summary |-> <<>>, srcname |-> Missing],
    [link |-> "u4", bad |-> TRUE, published |-> "",
     title |-> Missing, summary |-> Missing, srcname |-> Missing],
    [link |-> "u4", bad |-> FALSE, published |-> "",
     title |-> <<"p","i","-","n","e","t","w","o","r","k"," ","c","o","i","n">>,
     summary |-> Null, srcname |-> Missing] >>

\* The symbols get_crypto_news is called with.
Symbols == { <<"P","i","-","N","e","t","w","o","r","k">>,
             <<"o","a","s","i","s">> }

\* dict.get(key, default)
Get(v, default) == IF v = Missing THEN default ELSE v

\* str() of a value inside an f-string.
Str(v) == IF v = Null THEN <<"N","o","n","e">> ELSE v

\* Position of the "<...>" match that starts at i: the first ">" at least
\* two places on with no "<" in between ([^<]+? is lazy), or 0.
TagEnd(s, i) ==
  LET ends == {j \in (i + 2)..Len(s) :
                  s[j] = ">" /\ \A k \in (i + 1)..(j - 1) : s[k] # "<"}
  IN  IF s[i] = "<" /\ ends # {}
        THEN CHOOSE j \in ends : \A j2 \in ends : j <= j2
        ELSE 0

RECURSIVE StripFrom(_, _)
\* s from position i on with every match removed: the text up to the
\* leftmost match at or after i is kept, and the scan resumes after it.
StripFrom(s, i) ==
  LET at == {j \in i..Len(s) : TagEnd(s, j) # 0}
      first == CHOOSE j \in at : \A j2 \in at : j <= j2
  IN  IF at = {} THEN SubSeq(s, i, Len(s))
      ELSE SubSeq(s, i, first - 1) \o StripFrom(s, TagEnd(s, first) + 1)

\* re.sub("<[^<]+?>", "", s)
re_sub_tags(s) == StripFrom(s, 1)

\* The mutant of Truncate: the comparison off by one.
TruncateAtLimit(desc) ==
  IF Len(desc) >= DescLimit THEN SubSeq(desc, 1, DescLimit) \o Ellipsis ELSE desc

\* if len(desc) > 200: desc = desc[:200] + "..."
Truncate(desc) ==
  IF Len(desc) > DescLimit THEN SubSeq(desc, 1, DescLimit) \o Ellipsis ELSE desc

\* Start of the last " - " in title, or 0 (" - " in title; title.rsplit(" - ", 1)).
LastSep(title) ==
  LET at == {i \in 1..Len(title) : LiteralAt(title, TitleSep, i)}
  IN  IF at = {} THEN 0 ELSE CHOOSE i \in at : \A i2 \in at : i2 <= i

\* Title, source label and tag-stripped description of a Google News entry.
GoogleFields(e) ==
  LET title0 == Get(e.title, NoTitle)
      cut == LastSep(title0)
      title == IF cut = 0 THEN title0 ELSE SubSeq(title0, 1, cut - 1)
      source == IF cut = 0 THEN <<"G","o","o","g","l","e"," ","N","e","w","s">>
                ELSE SubSeq(title0, cut + Len(TitleSep), Len(title0))
  IN  [title |-> title, source |-> source,
       desc |-> re_sub_tags(Get(e.summary, title))]

\* Title and description of a NewsAPI article; the description is stored as
\* delivered, "" when it is absent, null or empty.
NewsApiFields(e) ==
  LET desc == Get(e.summary, <<>>)
  IN  [title |-> Get(e.title, NoTitle),
       source |-> Get(e.srcname, <<"N","e","w","s","A","P","I">>),
       desc |-> IF desc = Null THEN <<>> ELSE desc,
       text |-> Str(Get(e.title, <<>>)) \o <<" ">> \o Str(desc)]

BingFields(e) ==
  [title |-> Get(e.title, NoTitle),
   source |-> <<"B","i","n","g"," ","N","e","w","s">>,
   desc |-> re_sub_tags(Get(e.summary, <<>>))]

\* A fixed feed classifies title and summary as delivered and strips the
\* summary afterwards.
FeedFields(e) ==
  LET title == Get(e.title, <<>>)
      summary == Get(e.summary, <<>>)
  IN  [title |-> IF title = <<>> THEN NoTitle ELSE title,
       source |-> <<"C","r","y","p","t","o"," ","F","e","e","d">>,
       desc |-> re_sub_tags(summary),
       text |-> title \o <<" ">> \o Str(summary)]

GoogleTest(e, sym) ==
  is_crypto_relevant(GoogleFields(e).title \o <<" ">> \o GoogleFields(e).desc, sym)

NewsApiTest(e, sym) == is_crypto_relevant(NewsApiFields(e).text, sym)

BingTest(e, sym) ==
  is_crypto_relevant(BingFields(e).title \o <<" ">> \o BingFields(e).desc, sym)

FeedTest(e, sym) == is_crypto_relevant(FeedFields(e).text, sym)

\* What a source's loop body reads from one entry before it decides: the
\* fields its guards test, the verdict of is_crypto_relevant, and the title,
\* source label, date and description (not yet shortened) of the story.
Prepared(e, f, relevant) ==
  [link |-> e.link, bad |-> e.bad, null_summary |-> e.summary = Null,
   relevant |-> relevant, title |-> f.title, source |-> f.source,
   published |-> e.published, desc |-> f.desc]

\* if len(desc) > 200: ...; stories.append({...})
Story(p) ==
  [title |-> p.title, source |-> p.source, url |-> p.link,
   published_at |-> p.published, description |-> Truncate(p.desc)]

GooglePrepared(sym) ==
  [i \in DOMAIN EntryPool |->
     LET e == EntryPool[i] IN Prepared(e, GoogleFields(e), GoogleTest(e, sym))]

NewsApiPrepared(sym) ==
  [i \in DOMAIN EntryPool |->
     LET e == EntryPool[i] IN Prepared(e, NewsApiFields(e), NewsApiTest(e, sym))]

BingPrepared(sym) ==
  [i \in DOMAIN EntryPool |->
     LET e == EntryPool[i] IN Prepared(e, BingFields(e), BingTest(e, sym))]

FeedPrepared(sym) ==
  [i \in DOMAIN EntryPool |->
     LET e == EntryPool[i] IN Prepared(e, FeedFields(e), FeedTest(e, sym))]

\* Per source, what its loop body makes of each entry of the pool when the
\* call is about sym.
PreparedPool(sym) ==
  [google |-> GooglePrepared(sym), newsapi |-> NewsApiPrepared(sym),
   bing |-> BingPrepared(sym), feed |-> FeedPrepared(sym)]

\* The mutant of AlreadySeen: the seen-url test left out.
NeverSeen(url, seen) == FALSE

\* url in seen_urls
AlreadySeen(url, seen) == url \in seen

\* What processing one Google News entry does: "raise", "no_url",
\* "duplicate", "filtered" or "accept".
GoogleOutcome(p, seen) ==
  IF p.bad THEN "raise"
  ELSE IF p.link = "" THEN "no_url"
  ELSE IF AlreadySeen(p.link, seen) THEN "duplicate"
  ELSE IF p.null_summary THEN "raise"
  ELSE IF ~p.relevant THEN "filtered"
  ELSE "accept"

NewsApiOutcome(p, seen) ==
  IF p.bad THEN "raise"
  ELSE IF p.link = "" THEN "no_url"
  ELSE IF AlreadySeen(p.link, seen) THEN "duplicate"
  ELSE IF ~p.relevant THEN "filtered"
  ELSE "accept"

BingOutcome(p, seen) ==
  IF p.bad THEN "raise"
  ELSE IF p.link = "" THEN "no_url"
  ELSE IF AlreadySeen(p.link, seen) THEN "duplicate"
  ELSE IF p.null_summary THEN "raise"
  ELSE IF ~p.relevant THEN "filtered"
  ELSE "accept"

FeedOutcome(p, seen) ==
  IF p.bad THEN "raise"
  ELSE IF p.link = "" THEN "no_url"
  ELSE IF AlreadySeen(p.link, seen) THEN "duplicate"
  ELSE IF ~p.relevant THEN "filtered"
  ELSE IF p.null_summary THEN "raise"
  ELSE "accept"

(* ------------------------------- state -------------------------------- *)

VARIABLES
  symbol,       \* get_crypto_news argument
  num_stories,  \* get_crypto_news argument
  api_key,      \* NEWSAPI_API_KEY is set
  stories,      \* accepted stories, in order
  seen_urls,    \* urls of the accepted stories
  pc,           \* where the call stands
  q,            \* index of the query variant / fixed feed at hand, else 0
  idx,          \* entries the running loop has taken from its list
  tried,        \* history: the fetches issued so far
  origins,      \* history: source and pool entry of each accepted story
  prepared,     \* per source, its loop body's reading of each pool entry
  event,        \* history: what the last step did
  result,       \* the returned document, once returned
  r_text,       \* classifier on its own: text
  r_symbol,     \* classifier on its own: symbol
  r_result,     \* classifier on its own: returned value
  r_pc          \* classifier on its own: "idle", "ready" or "done"

callVars == <<symbol, num_stories, api_key, stories, seen_urls, pc, q,
              idx, tried, origins, prepared, event, result>>

relVars == <<r_text, r_symbol, r_result, r_pc>>

vars == <<symbol, num_stories, api_key, stories, seen_urls, pc, q,
          idx, tried, origins, prepared, event, result, r_text, r_symbol, r_result, r_pc>>

search_variants ==
  <<"{clean_symbol} cryptocurrency price news",
    "{clean_symbol} crypto token news",
    "{symbol} blockchain price">>

crypto_feeds ==
  <<"https://cointelegraph.com/rss",
    "https://news.bitcoin.com/feed/",
    "https://cryptonews.net/en/news/feed/",
    "https://www.coindesk.com/arc/outboundfeeds/rss/">>

Min(a, b) == IF a <= b THEN a ELSE b

\* The mutant of GoogleLimit: the slice left out.
GoogleUnsliced(n) == MaxEntries

\* feed.entries[:num_stories * 4] of Google News
GoogleLimit(n) == n * 4

\* feed.entries[:num_stories * 4] of Bing News
BingLimit(n) == n * 4

\* feed.entries[:num_stories * 5] of a fixed feed
FeedLimit(n) == n * 5

NoResult == [symbol |-> <<>>, news |-> <<>>, count |-> -1]

(* ---------------------------- control flow ---------------------------- *)

At(p, k) == [pc |-> p, q |-> k]

\* if len(stories) < num_stories: (the fixed feeds)
AfterBing(st, n) ==
  IF Len(st) < n THEN At("feed_fetch", 1) ELSE At("return", 0)

\* if len(stories) < num_stories: (Bing)
AfterNewsApi(st, n) ==
  IF Len(st) < n THEN At("bing_fetch", 0) ELSE AfterBing(st, n)

\* The mutant of AfterGoogle: the story count left out of the test.
AfterGoogleKeyOnly(st, n, key) ==
  IF key THEN At("newsapi_fetch", 0) ELSE AfterNewsApi(st, n)

\* if len(stories) < num_stories and NEWSAPI_API_KEY:
AfterGoogle(st, n, key) ==
  IF Len(st) < n /\ key THEN At("newsapi_fetch", 0) ELSE AfterNewsApi(st, n)

\* continue in "for q in search_variants"
NextVariant(k, st, n, key) ==
  IF k < Len(search_variants) THEN At("google_fetch", k + 1)
  ELSE AfterGoogle(st, n, key)

\* The mutant of NextFeed: the feed loop left after its first feed.
NextFeedBreak(k) == At("return", 0)

\* continue in "for feed_url in crypto_feeds"
NextFeed(k) ==
  IF k < Len(crypto_feeds) THEN At("feed_fetch", k + 1) ELSE At("return", 0)

\* The mutant of FeedExcept: the exception leaves get_crypto_news.
FeedReraise(k) == At("raised", 0)

\* except Exception: continue (Google News, inside the variant loop)
GoogleExcept(k, st, n, key) == NextVariant(k, st, n, key)

\* except Exception: pass (NewsAPI)
NewsApiExcept(st, n) == AfterNewsApi(st, n)

\* except Exception: pass (Bing News)
BingExcept(st, n) == AfterBing(st, n)

\* except Exception: continue (fixed feeds)
FeedExcept(k) == NextFeed(k)

\* One iteration of the entry loop of source `kind`: entry i of the pool is
\* taken from the list, p is the loop body's reading of it, `outcome` what
\* processing it does, `handler` where the enclosing except clause continues.
EntryStep(kind, i, p, outcome, handler) ==
  /\ stories' = IF outcome = "accept" THEN Append(stories, Story(p))
                ELSE stories
  /\ seen_urls' = IF outcome = "accept" THEN seen_urls \cup {p.link}
                  ELSE seen_urls
  /\ origins' = IF outcome = "accept"
                  THEN Append(origins, [kind |-> kind, entry |-> i])
                  ELSE origins
  /\ event' = IF outcome = "raise" THEN "entry_error"
              ELSE IF outcome = "accept" THEN "accepted" ELSE outcome
  /\ pc' = IF outcome = "raise" THEN handler.pc ELSE pc
  /\ q' = IF outcome = "raise" THEN handler.q ELSE q
  /\ idx' = IF outcome = "raise" THEN 0 ELSE idx + 1
  /\ UNCHANGED <<symbol, num_stories, api_key, tried, prepared, result>>
  /\ UNCHANGED relVars

\* Leaving a source (its loop ended, was skipped, or its fetch gave nothing).
Leave(to, ev) ==
  /\ pc' = to.pc
  /\ q' = to.q
  /\ idx' = 0
  /\ event' = ev
  /\ UNCHANGED <<symbol, num_stories, api_key, stories, seen_urls, origins,
                 prepared, result>>
  /\ UNCHANGED relVars

\* A fetch that returned a list of entries.  The list is read as the loop
\* goes: at each point it has a further entry (MaxEntries at most) or has
\* ended.
Enter(loop) ==
  /\ pc' = loop
  /\ idx' = 0
  /\ event' = "fetched"
  /\ UNCHANGED <<symbol, num_stories, api_key, stories, seen_urls, origins, q,
                 prepared, result>>
  /\ UNCHANGED relVars

(* ------------------------------ Google News --------------------------- *)

GoogleFetch ==
  /\ pc = "google_fetch"
  /\ IF Len(stories) >= num_stories
       THEN /\ Leave(AfterGoogle(stories, num_stories, api_key), "skipped")
            /\ tried' = tried
       ELSE /\ tried' = tried \cup {<<"google", q>>}
            /\ \/ Leave(GoogleExcept(q, stories, num_stories, api_key), "fetch_error")
               \/ Leave(NextVariant(q, stories, num_stories, api_key), "no_entries")
               \/ Enter("google_loop")

GoogleEntry ==
  /\ pc = "google_loop"
  /\ idx < Min(MaxEntries, GoogleLimit(num_stories))
  /\ Len(stories) < num_stories
  /\ \E i \in DOMAIN prepared.google :
        EntryStep("google", i, prepared.google[i],
                  GoogleOutcome(prepared.google[i], seen_urls),
                  GoogleExcept(q, stories, num_stories, api_key))

\* The slice has no further entry, or the loop breaks on a full list.
GoogleEnd ==
  /\ pc = "google_loop"
  /\ tried' = tried
  /\ IF stories # <<>>
       THEN Leave(AfterGoogle(stories, num_stories, api_key), "loop_end")
       ELSE Leave(NextVariant(q, stories, num_stories, api_key), "loop_end")

(* -------------------------------- NewsAPI ----------------------------- *)

NewsApiFetch ==
  /\ pc = "newsapi_fetch"
  /\ tried' = tried \cup {<<"newsapi", 0>>}
  /\ \/ Leave(NewsApiExcept(stories, num_stories), "fetch_error")
     \/ Leave(AfterNewsApi(stories, num_stories), "no_entries")
     \/ Enter("newsapi_loop")

NewsApiEntry ==
  /\ pc = "newsapi_loop"
  /\ idx < Min(MaxEntries, pageSize)
  /\ Len(stories) < num_stories
  /\ \E i \in DOMAIN prepared.newsapi :
        EntryStep("newsapi", i, prepared.newsapi[i],
                  NewsApiOutcome(prepared.newsapi[i], seen_urls),
                  NewsApiExcept(stories, num_stories))

\* The slice has no further entry, or the loop breaks on a full list.
NewsApiEnd ==
  /\ pc = "newsapi_loop"
  /\ tried' = tried
  /\ Leave(AfterNewsApi(stories, num_stories), "loop_end")

(* ------------------------------- Bing News ---------------------------- *)

BingFetch ==
  /\ pc = "bing_fetch"
  /\ tried' = tried \cup {<<"bing", 0>>}
  /\ \/ Leave(BingExcept(stories, num_stories), "fetch_error")
     \/ Leave(AfterBing(stories, num_stories), "no_entries")
     \/ Enter("bing_loop")

BingEntry ==
  /\ pc = "bing_loop"
  /\ idx < Min(MaxEntries, BingLimit(num_stories))
  /\ Len(stories) < num_stories
  /\ \E i \in DOMAIN prepared.bing :
        EntryStep("bing", i, prepared.bing[i],
                  BingOutcome(prepared.bing[i], seen_urls),
                  BingExcept(stories, num_stories))

\* The slice has no further entry, or the loop breaks on a full list.
BingEnd ==
  /\ pc = "bing_loop"
  /\ tried' = tried
  /\ Leave(AfterBing(stories, num_stories), "loop_end")

(* ------------------------------ fixed feeds --------------------------- *)

FeedFetch ==
  /\ pc = "feed_fetch"
  /\ IF Len(stories) >= num_stories
       THEN /\ Leave(At("return", 0), "skipped")
            /\ tried' = tried
       ELSE /\ tried' = tried \cup {<<"feed", q>>}
            /\ \/ Leave(FeedExcept(q), "fetch_error")
               \/ Leave(NextFeed(q), "no_entries")
               \/ Enter("feed_loop")

FeedEntry ==
  /\ pc = "feed_loop"
  /\ idx < Min(MaxEntries, FeedLimit(num_stories))
  /\ Len(stories) < num_stories
  /\ \E i \in DOMAIN prepared.feed :
        EntryStep("feed", i, prepared.feed[i],
                  FeedOutcome(prepared.feed[i], seen_urls),
                  FeedExcept(q))

\* The slice has no further entry, or the loop breaks on a full list.
FeedEnd ==
  /\ pc = "feed_loop"
  /\ tried' = tried
  /\ Leave(NextFeed(q), "loop_end")

(* -------------------------------- return ------------------------------ *)

upper_char(c) ==
  IF \E i \in 1..26 : LowerLetters[i] = c
    THEN UpperLetters[CHOOSE i \in 1..26 : LowerLetters[i] = c]
    ELSE c

\* symbol.upper()
upper(s) == [i \in 1..Len(s) |-> upper_char(s[i])]

\* f"No recent crypto news found for {symbol}. It might have ..."
NoNewsMessage(sym) ==
  <<"N","o"," ","r","e","c","e","n","t"," ","c","r","y","p","t","o"," ",
    "n","e","w","s"," ","f","o","u","n","d"," ","f","o","r"," ">>
  \o sym \o
  <<"."," ","I","t"," ","m","i","g","h","t"," ","h","a","v","e"," ",
    "l","i","m","i","t","e","d"," ","m","e","d","i","a"," ","c","o","v","e",
    "r","a","g","e"," ","o","r"," ","b","e"," ","a"," ","v","e","r","y"," ",
    "n","e","w"," ","p","r","o","j","e","c","t",".">>

\* The mutant of Document: an empty list returned without its message.
DocumentSilent(sym, st) ==
  [symbol |-> upper(sym), news |-> st, count |-> Len(st), message |-> <<>>]

\* The document get_crypto_news returns (its timestamp left out); message
\* <<>> stands for a document without the message key.
Document(sym, st) ==
  IF st = <<>>
    THEN [symbol |-> upper(sym), news |-> <<>>, count |-> 0,
          message |-> NoNewsMessage(sym)]
    ELSE [symbol |-> upper(sym), news |-> st, count |-> Len(st),
          message |-> <<>>]

Return ==
  /\ pc = "return"
  /\ result' = Document(symbol, stories)
  /\ pc' = "done"
  /\ event' = "returned"
  /\ UNCHANGED <<symbol, num_stories, api_key, stories, seen_urls, q,
                 idx, tried, origins, prepared>>
  /\ UNCHANGED relVars

(* ---------------------------- specifications -------------------------- *)

Init ==
  /\ symbol \in Symbols
  /\ num_stories \in 1..MaxStories
  /\ api_key \in BOOLEAN
  /\ stories = <<>>
  /\ seen_urls = {}
  /\ pc = "google_fetch"
  /\ q = 1
  /\ idx = 0
  /\ tried = {}
  /\ origins = <<>>
  /\ prepared = PreparedPool(symbol)
  /\ event = "called"
  /\ result = NoResult
  /\ r_text = <<>>
  /\ r_symbol = <<>>
  /\ r_result = FALSE
  /\ r_pc = "idle"

Next ==
  \/ GoogleFetch
  \/ GoogleEntry
  \/ GoogleEnd
  \/ NewsApiFetch
  \/ NewsApiEntry
  \/ NewsApiEnd
  \/ BingFetch
  \/ BingEntry
  \/ BingEnd
  \/ FeedFetch
  \/ FeedEntry
  \/ FeedEnd
  \/ Return

Spec == Init /\ [][Next]_vars

\* Every fetch returns or fails (request sources time out), so a call that
\* can take a step takes one.
FairSpec == Spec /\ WF_vars(Next)

(* ----------------------- the classifier on its own -------------------- *)

Vocabulary ==
  { <<"O","a","s","i","s">>,
    <<"o","a","s","i","s","c","o","i","n">>,
    <<"p","i","-","n","e","t","w","o","r","k">>,
    <<"P","i">>,
    <<"N","e","t","w","o","r","k">>,
    <<"c","o","i","n">>,
    <<"b","i","t","c","o","i","n">>,
    <<"c","i","t","y">> }

RelSymbols ==
  { <<"o","a","s","i","s">>,
    <<"P","i","-","N","e","t","w","o","r","k">> }

RECURSIVE JoinWords(_)
JoinWords(ws) ==
  IF ws = <<>> THEN <<>>
  ELSE IF Len(ws) = 1 THEN ws[1]
  ELSE ws[1] \o <<" ">> \o JoinWords(Tail(ws))

Texts ==
  {JoinWords(ws) : ws \in UNION {[1..n -> Vocabulary] : n \in 0..MaxWords}}

RelInit ==
  /\ r_text \in Texts
  /\ r_symbol \in RelSymbols
  /\ r_result = FALSE
  /\ r_pc = "ready"
  /\ symbol = <<>>
  /\ num_stories = 0
  /\ api_key = FALSE
  /\ stories = <<>>
  /\ seen_urls = {}
  /\ pc = "idle"
  /\ q = 0
  /\ idx = 0
  /\ tried = {}
  /\ origins = <<>>
  /\ prepared = <<>>
  /\ event = "idle"
  /\ result = NoResult

Classify ==
  /\ r_pc = "ready"
  /\ r_result' = is_crypto_relevant(r_text, r_symbol)
  /\ r_pc' = "done"
  /\ UNCHANGED <<r_text, r_symbol>>
  /\ UNCHANGED callVars

RelNext == Classify

RelSpec == RelInit /\ [][RelNext]_vars

(* ------------------------------ properties ---------------------------- *)

Urls(st) == {st[i].url : i \in 1..Len(st)}

\* C1: within one get_crypto_news call no two accepted stories have the same
\* url, whichever sources or query variants they came from, and seen_urls is
\* exactly the set of the accepted urls.
C1_UniqueUrls ==
  /\ \A i, j \in 1..Len(stories) : i # j => stories[i].url # stories[j].url
  /\ seen_urls = Urls(stories)

\* An entry is dropped at Bing because a story accepted from an earlier
\* source already has its url.
C1_DuplicateDropped ==
  /\ pc = "bing_loop"
  /\ event = "duplicate"
  /\ stories # <<>>
  /\ \A i \in 1..Len(origins) : origins[i].kind # "bing"

\* C2: the number of accepted stories never exceeds num_stories, and once it
\* has reached num_stories no further fetch is issued (no later Google
\* variant, NewsAPI, Bing or fixed feed).
C2_StopAtCount ==
  /\ [](Len(stories) <= num_stories)
  /\ [][Len(stories) >= num_stories => tried' = tried]_vars

\* The first Google variant yields num_stories stories and the call returns
\* having queried nothing else.
C2_FirstSourceSuffices ==
  /\ pc = "done"
  /\ Len(stories) = num_stories
  /\ tried = {<<"google", 1>>}

Failures == {"fetch_error", "no_entries", "entry_error"}

Resumptions == {"google_fetch", "newsapi_fetch", "bing_fetch", "feed_fetch", "return"}

WellFormed(doc) ==
  /\ doc.symbol = upper(symbol)
  /\ doc.news = stories
  /\ doc.count = Len(doc.news)

\* C3: a failure at a source (transport error, non-200 status, missing or
\* malformed entry list, exception while processing an entry) never leaves
\* get_crypto_news: the failing step adds no story and keeps the stories
\* accepted so far, the call resumes at the next source or at the return,
\* and what it returns is a well-formed document.
C3_FailuresContained ==
  /\ [](pc # "raised")
  /\ [](pc = "done" => WellFormed(result))
  /\ [][event' \in Failures =>
          /\ stories' = stories
          /\ seen_urls' = seen_urls
          /\ pc' \in Resumptions]_vars

\* An entry raises after a story was accepted, and the call goes on to Bing
\* with the story kept.
C3_FailureAfterAccept ==
  /\ event = "entry_error"
  /\ pc = "bing_fetch"
  /\ stories # <<>>

\* C4: a call that ends with no qualifying story returns count 0, an empty
\* news list and a non-empty message; a call that ends with stories returns
\* them with count equal to their number.
C4_ResultShape ==
  pc = "done" =>
    IF stories = <<>>
      THEN result.count = 0 /\ result.news = <<>> /\ result.message # <<>>
      ELSE result.news = stories /\ result.count = Len(result.news)

AllSourcesTried ==
  /\ <<"google", 1>> \in tried
  /\ stories = <<>> => \A k \in 1..Len(search_variants) : <<"google", k>> \in tried
  /\ api_key => <<"newsapi", 0>> \in tried
  /\ <<"bing", 0>> \in tried
  /\ \A k \in 1..Len(crypto_feeds) : <<"feed", k>> \in tried

\* Every source was tried and none had a qualifying story.
C4_NothingFound ==
  /\ pc = "done"
  /\ stories = <<>>
  /\ AllSourcesTried

\* C5: every call returns, and it returns either satisfied (num_stories
\* stories) or exhausted (fewer stories, every configured source tried).
C5_Terminates ==
  /\ <>(pc = "done")
  /\ [](pc = "done" =>
          \/ Len(stories) = num_stories
          \/ Len(stories) < num_stories /\ AllSourcesTried)

\* A call ends exhausted with some stories, but fewer than asked for.
C5_ExhaustedWithSome ==
  /\ pc = "done"
  /\ stories # <<>>
  /\ Len(stories) < num_stories
  /\ AllSourcesTried

\* p occurs in t at position i as a whole word.
WholeWordAt(t, p, i) ==
  /\ LiteralAt(t, p, i)
  /\ i = 1 \/ ~IsWordChar(t[i - 1])
  /\ i + Len(p) - 1 = Len(t) \/ ~IsWordChar(t[i + Len(p)])

\* Mention count: the whole-word, case-insensitive occurrences of the topic
\* identifier, raw or with '-' replaced by spaces, in the text.
MentionCount(text, topic) ==
  Cardinality({i \in 1..Len(text) :
     \/ WholeWordAt(lower(text), lower(topic), i)
     \/ WholeWordAt(lower(text), lower(clean_symbol_of(topic)), i)})

\* C6: a text in which the topic does not occur as a whole word is rejected,
\* whatever keywords it contains.
C6_NoMentionRejected ==
  r_pc = "done" /\ MentionCount(r_text, r_symbol) = 0 => r_result = FALSE

\* A text that holds the topic only inside a longer word, next to a
\* positive keyword, has been classified.
C6_EmbeddedTopic ==
  /\ r_pc = "done"
  /\ MentionCount(r_text, r_symbol) = 0
  /\ Contains(lower(r_text), lower(r_symbol))
  /\ has_crypto_context(lower(r_text))

\* C7: a text with exactly one mention of the topic and no positive-context
\* keyword is rejected.
C7_SingleMentionNoContext ==
  r_pc = "done" /\ MentionCount(r_text, r_symbol) = 1
                /\ ~has_crypto_context(lower(r_text))
    => r_result = FALSE

\* C8: a text with exactly one mention of the topic and a positive-context
\* keyword is accepted if it has no negative-context keyword, and otherwise
\* exactly if it has at least two distinct positive-context keywords.
C8_SingleMentionContext ==
  r_pc = "done" /\ MentionCount(r_text, r_symbol) = 1
                /\ has_crypto_context(lower(r_text))
    => r_result = (\/ ~has_false_positive(lower(r_text))
                   \/ crypto_count(lower(r_text)) >= 2)

\* C9 as stated: every source inspects at most a small multiple of
\* num_stories entries per query, the multiples not decreasing along the
\* source order (NewsAPI, between Google News and Bing News, at most 4).
C9_EveryLoopBounded ==
  /\ pc \in {"google_loop", "newsapi_loop", "bing_loop"} => idx <= 4 * num_stories
  /\ pc = "feed_loop" => idx <= 5 * num_stories

\* C9, amended: Google News and Bing News inspect at most 4 * num_stories
\* entries per query and a fixed feed at most 5 * num_stories; NewsAPI
\* inspects the articles of the response, however many, until num_stories
\* stories are held.
C9_FeedLoopsBounded ==
  /\ pc = "google_loop" => idx <= 4 * num_stories
  /\ pc = "bing_loop" => idx <= 4 * num_stories
  /\ pc = "feed_loop" => idx <= 5 * num_stories
  /\ pc = "newsapi_loop" => idx <= pageSize
  /\ GoogleLimit(num_stories) <= BingLimit(num_stories)
  /\ BingLimit(num_stories) <= FeedLimit(num_stories)

\* A fixed feed has had 5 * num_stories entries inspected and no story yet
\* fills the request.
C9_LimitReached ==
  /\ pc = "feed_loop"
  /\ idx = 5 * num_stories
  /\ Len(stories) < num_stories

\* The description a source hands to truncation: tag-stripped for Google
\* News, Bing News and the fixed feeds, as delivered for NewsAPI ("" when
\* absent or null).
SourceDescription(o) == prepared[o.kind][o.entry].desc

\* The description a source hands to truncation, as the claim has it: the
\* entry's description with tags stripped.
StrippedDescription(o) ==
  IF o.kind = "newsapi" THEN re_sub_tags(SourceDescription(o))
  ELSE SourceDescription(o)

Shortened(d) ==
  IF Len(d) <= DescLimit THEN d
  ELSE [i \in 1..(DescLimit + 3) |-> IF i <= DescLimit THEN d[i] ELSE "."]

\* C10 as stated: every stored description is the tag-stripped description,
\* unchanged up to 200 characters, else its first 200 characters and "...".
C10_StrippedAndShortened ==
  \A i \in 1..Len(stories) :
     /\ stories[i].description = Shortened(StrippedDescription(origins[i]))
     /\ Len(stories[i].description) <= DescLimit + 3

\* C10, amended: every stored description is the description its source
\* hands to truncation (tag-stripped except at NewsAPI), unchanged up to 200
\* characters, else its first 200 characters and "..."; none is longer than
\* 203.
C10_Shortened ==
  \A i \in 1..Len(stories) :
     /\ stories[i].description = Shortened(SourceDescription(origins[i]))
     /\ Len(stories[i].description) <= DescLimit + 3

\* A description of more than 200 characters and one of exactly 200 have
\* been stored.
C10_LongAndExact ==
  /\ \E i \in 1..Len(stories) :
        /\ Len(SourceDescription(origins[i])) > DescLimit
        /\ Len(stories[i].description) = DescLimit + 3
  /\ \E i \in 1..Len(stories) :
        /\ Len(SourceDescription(origins[i])) = DescLimit
        /\ stories[i].description = SourceDescription(origins[i])

\* The query variants of Google News fetched so far.
GoogleFetched(t) == {k \in 1..Len(search_variants) : <<"google", k>> \in t}

\* C11: the Google News query variants are fetched in order, and once the
\* story list is non-empty no further variant is fetched, also when the
\* variant that accepted a story then failed.
C11_VariantsStopOnStory ==
  /\ [](\A k \in GoogleFetched(tried) : \A j \in 1..k : j \in GoogleFetched(tried))
  /\ [][stories # <<>> => GoogleFetched(tried') = GoogleFetched(tried)]_vars

====
